---- MODULE Spec2Model ----
(***************************************************************************)
(* TASCAM US-144MKII control panel (tascam_controls/tascam-controls.py).   *)
(*                                                                         *)
(* Text is modelled as a sequence of tokens (a token is a short piece of   *)
(* text: "card ", a digit, ":", ...).  Python's None is the one-token      *)
(* sequence None, so that it is different from every string the program    *)
(* handles, the empty string <<>> included.                                *)
(*                                                                         *)
(* The external world the program talks to is part of the state: the       *)
(* answer of `aplay -l` and the values the driver holds for its controls.  *)
(* Every run of an external tool picks its outcome (binary missing,        *)
(* non-zero exit, output) nondeterministically.  No other program writes   *)
(* the device controls while the panel runs.                               *)
(*                                                                         *)
(* Spec is the program: main(), the panel's constructor and its handlers.  *)
(* SpecAdapter calls one function of AmixerController on one input drawn   *)
(* from a bounded set of tool outputs and files.                           *)
(***************************************************************************)
EXTENDS Integers, Sequences, FiniteSets, TLC

\* ------------------------------------------------------------ bounds
\* user dropdown changes in one run of the panel
MaxChanges == 2
\* external calls that fail or answer with malformed output in one run
MaxFaults == 1
\* lines in the output of a tool handed to an adapter function
MaxLines == 2
\* tokens in the content of a sysfs file
MaxText == 3

\* ------------------------------------------------------------ python text
None == <<"None">>

Digit == {"0", "1", "2", "3", "4", "5", "6", "7", "8", "9"}

DigitVal(d) ==
    CASE d = "0" -> 0 [] d = "1" -> 1 [] d = "2" -> 2 [] d = "3" -> 3
      [] d = "4" -> 4 [] d = "5" -> 5 [] d = "6" -> 6 [] d = "7" -> 7
      [] d = "8" -> 8 [] d = "9" -> 9

DigitOf(n) ==
    CASE n = 0 -> "0" [] n = 1 -> "1" [] n = 2 -> "2" [] n = 3 -> "3"
      [] n = 4 -> "4" [] n = 5 -> "5" [] n = 6 -> "6" [] n = 7 -> "7"
      [] n = 8 -> "8" [] n = 9 -> "9"

AllDigits(s) == Len(s) > 0 /\ \A i \in 1..Len(s) : s[i] \in Digit

RECURSIVE DigitsVal(_)
DigitsVal(s) ==
    IF s = <<>> THEN 0
    ELSE 10 * DigitsVal(SubSeq(s, 1, Len(s) - 1)) + DigitVal(s[Len(s)])

RECURSIVE NatStr(_)
NatStr(n) == IF n < 10 THEN <<DigitOf(n)>> ELSE NatStr(n \div 10) \o <<DigitOf(n % 10)>>

\* str(n) for an int
PyStr(n) == IF n < 0 THEN <<"-">> \o NatStr(0 - n) ELSE NatStr(n)

\* int(s) succeeds on an optional sign followed by digits, else ValueError
IsIntText(s) ==
    \/ AllDigits(s)
    \/ Len(s) > 1 /\ s[1] \in {"-", "+"} /\ AllDigits(Tail(s))

PyInt(s) ==
    IF s[1] = "-" THEN 0 - DigitsVal(Tail(s))
    ELSE IF s[1] = "+" THEN DigitsVal(Tail(s))
    ELSE DigitsVal(s)

\* `not x` for x a str or None; the variant reads the text as the number it spells
PyNotAsNumber(x) == x = None \/ x = <<>> \/ (AllDigits(x) /\ DigitsVal(x) = 0)

PyNot(x) == x = None \/ x = <<>>

\* `sub in line` at the granularity of tokens
Contains(line, tok) == \E i \in 1..Len(line) : line[i] = tok

\* s.strip()
Whitespace == {" ", "\n"}

RECURSIVE LStrip(_)
LStrip(s) == IF s # <<>> /\ s[1] \in Whitespace THEN LStrip(Tail(s)) ELSE s

RECURSIVE RStrip(_)
RStrip(s) ==
    IF s # <<>> /\ s[Len(s)] \in Whitespace THEN RStrip(SubSeq(s, 1, Len(s) - 1)) ELSE s

\* f.read() without .strip()
StripNothing(s) == s

Strip(s) == RStrip(LStrip(s))

\* ------------------------------------------------------------ subprocess
\* the result of subprocess.check_output / check_call: the exception it raises
\* ("ok" when it returns) and the text it returns, as a sequence of lines
Missing == [status |-> "FileNotFoundError", out |-> <<>>]
NonZero == [status |-> "CalledProcessError", out |-> <<>>]
Ok(out) == [status |-> "ok", out |-> out]

NoExc == "none"
Return(v) == [exc |-> NoExc, val |-> v]
Raise(e) == [exc |-> e, val |-> 0]

\* ------------------------------------------------------------ AmixerController
NAME == "US144MKII"

\* the number of leading digit tokens of s
RECURSIVE LeadingDigits(_)
LeadingDigits(s) ==
    IF s # <<>> /\ s[1] \in Digit THEN 1 + LeadingDigits(Tail(s)) ELSE 0

\* re.match(r'card (\d+):', line): anchored at the start of the line; group(1) or None
re_match_card(line) ==
    LET k == IF line = <<>> THEN 0 ELSE LeadingDigits(Tail(line))
    IN  IF line # <<>> /\ line[1] = "card " /\ k >= 1 /\ Len(line) >= k + 2 /\ line[k + 2] = ":"
        THEN SubSeq(line, 2, k + 1)
        ELSE None

get_card_id_except == {"FileNotFoundError", "CalledProcessError"}

\* the first name line decides, whether it carries the pattern or not
RECURSIVE scan_first_name_line(_, _)
scan_first_name_line(card_name, lines) ==
    IF lines = <<>> THEN None
    ELSE IF Contains(lines[1], card_name)
         THEN re_match_card(lines[1])
         ELSE scan_first_name_line(card_name, Tail(lines))

\* lines 85-89: the first line that holds the name and matches the pattern
RECURSIVE scan_card_lines(_, _)
scan_card_lines(card_name, lines) ==
    IF lines = <<>> THEN None
    ELSE IF Contains(lines[1], card_name) /\ re_match_card(lines[1]) # None
         THEN re_match_card(lines[1])
         ELSE scan_card_lines(card_name, Tail(lines))

get_card_id(card_name, res) ==
    IF res.status # "ok"
    THEN IF res.status \in get_card_id_except THEN Return(None) ELSE Raise(res.status)
    ELSE Return(scan_card_lines(card_name, res.out))

\* 'values=' in line, without the colon
HasValuesFieldLoose(line) ==
    \E i \in 1..(Len(line) - 1) : line[i] \in {": values", "values"} /\ line[i + 1] = "="

\* ': values=' in line
HasValuesField(line) ==
    \E i \in 1..(Len(line) - 1) : line[i] = ": values" /\ line[i + 1] = "="

\* line.split('=')[1]: the text between the first and the second '='
RECURSIVE UpToEq(_)
UpToEq(s) == IF s = <<>> \/ s[1] = "=" THEN <<>> ELSE <<s[1]>> \o UpToEq(Tail(s))

RECURSIVE AfterFirstEq(_)
AfterFirstEq(s) == IF s[1] = "=" THEN Tail(s) ELSE AfterFirstEq(Tail(s))

SplitEq1(line) == UpToEq(AfterFirstEq(line))

\* the except clause without ValueError
get_control_value_no_value_error ==
    {"FileNotFoundError", "CalledProcessError", "IndexError"}

get_control_value_except ==
    {"FileNotFoundError", "CalledProcessError", "IndexError", "ValueError"}

RECURSIVE scan_values_lines(_)
scan_values_lines(lines) ==
    IF lines = <<>> THEN Return(0)
    ELSE IF HasValuesField(lines[1])
         THEN IF ~Contains(lines[1], "=") THEN Raise("IndexError")
              ELSE IF IsIntText(SplitEq1(lines[1])) THEN Return(PyInt(SplitEq1(lines[1])))
              ELSE Raise("ValueError")
         ELSE scan_values_lines(Tail(lines))

cget_cmd(card_id, control_name) ==
    [op |-> "cget", card |-> card_id, name |-> control_name, value |-> <<>>]

get_control_value(card_id, control_name, res) ==
    IF PyNot(card_id) THEN Return(0)
    ELSE LET r == IF res.status # "ok" THEN Raise(res.status) ELSE scan_values_lines(res.out)
         IN  IF r.exc \in get_control_value_except THEN Return(0) ELSE r

cset_cmd(card_id, control_name, value) ==
    [op |-> "cset", card |-> card_id, name |-> control_name, value |-> PyStr(value)]

\* the except clause without CalledProcessError
set_control_value_no_exit_status == {"FileNotFoundError"}

set_control_value_except == {"FileNotFoundError", "CalledProcessError"}

set_control_value(card_id, control_name, value, res) ==
    IF PyNot(card_id) THEN Return(FALSE)
    ELSE IF res.status = "ok" THEN Return(TRUE)
    ELSE IF res.status \in set_control_value_except THEN Return(FALSE)
    ELSE Raise(res.status)

\* f"/sys/class/sound/card{card_id}/device/{attr_name}"
sysfs_path(card_id, attr_name) ==
    <<"/sys/class/sound/card">> \o card_id \o <<"/device/", attr_name>>

NA == <<"N/A">>

\* a file of the filesystem: [exists, readable, content]
AbsentFile == [exists |-> FALSE, readable |-> FALSE, content |-> <<>>]

\* os.path.exists(path), for fs a function from the paths that exist to files
path_exists(fs, path) == path \in DOMAIN fs /\ fs[path].exists

read_sysfs_attr_except == {"IOError"}

\* fs: the filesystem; open() or read() of an unreadable file raises IOError
read_sysfs_attr(card_id, attr_name, fs) ==
    LET path == sysfs_path(card_id, attr_name)
    IN  IF path_exists(fs, path)
        THEN IF fs[path].readable THEN Return(Strip(fs[path].content))
             ELSE IF "IOError" \in read_sysfs_attr_except THEN Return(NA)
             ELSE Raise("IOError")
        ELSE Return(NA)

\* ------------------------------------------------------------ the device
\* the controls of the driver the panel reads or writes
EnumControls ==
    {"Latency Profile", "Line Out Source", "Digital Out Source",
     "Capture 1-2 Source", "Capture 3-4 Source"}

Controls == EnumControls \cup {"Sample Rate"}

\* what `amixer cget` prints for a control holding v
CgetHeader(name) ==
    << <<"numid", "=", "3", ",", "iface", "=", "CARD", ",", "name", "=", name>>,
       <<"; type", "=", "ENUMERATED", ",", "access", "=", "rw", ",", "values", "=", "1">> >>

CgetOutput(name, v) == CgetHeader(name) \o << <<": values", "=">> \o PyStr(v) >>

\* the ways one run of `amixer cget` can end
ReadOutcomes == {"missing", "nonzero", "good", "list"}

\* the ways one run of `amixer cset` can end
WriteOutcomes == {"missing", "nonzero", "ok"}

\* the ways the read of the sysfs file can end
FileOutcomes == {"absent", "unreadable", "present"}

CgetRun(cmd, how, device) ==
    CASE how = "missing" -> Missing
      [] how = "nonzero" -> NonZero
      [] how = "good" -> Ok(CgetOutput(cmd.name, device[cmd.name]))
      [] how = "list" -> Ok(CgetHeader(cmd.name) \o << <<": values", "=", "1", ",", "0">> >>)

CsetRun(how) ==
    CASE how = "missing" -> Missing
      [] how = "nonzero" -> NonZero
      [] how = "ok" -> Ok(<<>>)

\* a successful cset stores the integer the command line spells
CsetEffect(cmd, how, device) ==
    IF how = "ok" /\ cmd.name \in DOMAIN device /\ IsIntText(cmd.value)
    THEN [device EXCEPT ![cmd.name] = PyInt(cmd.value)]
    ELSE device

DriverVersionText == <<"1", ".", "0", "\n">>

FileFor(how) ==
    CASE how = "absent" -> AbsentFile
      [] how = "unreadable" -> [exists |-> TRUE, readable |-> FALSE, content |-> DriverVersionText]
      [] how = "present" -> [exists |-> TRUE, readable |-> TRUE, content |-> DriverVersionText]

\* ------------------------------------------------------------ state
VARIABLES
    pc,          \* where main() is: "start", "error_dialog", "construct", "load",
                 \* "running", "exited", "crashed" (an exception nothing catches)
    step,        \* the next external call of load_dynamic_settings, 1..7
    exit_code,   \* the argument of sys.exit, -1 while the process runs
    card_id,     \* main's card_id, then TascamControlPanel.card_id
    panel,       \* whether the TascamControlPanel object has been constructed
    combo,       \* QComboBox.currentIndex of each of the five dropdowns
    info_labels, \* the texts of the labels load_dynamic_settings fills
    aplay,       \* environment: what running `aplay -l` gives
    dev,         \* environment: the value the driver holds for each control
    calls,       \* history: every external call issued, with outcome and result
    changes,     \* history: every dropdown change the user made
    dialogs,     \* history: the number of QMessageBox.critical dialogs shown
    faults,      \* history: the number of external calls that went wrong
    fcall,       \* adapter call under test: the function and its arguments
    fret         \* adapter call under test: what it returned, NotCalled before

vars ==
    <<pc, step, exit_code, card_id, panel, combo, info_labels, aplay, dev, calls,
      changes, dialogs, faults, fcall, fret>>

mainVars ==
    <<pc, step, exit_code, card_id, panel, combo, info_labels, aplay, dev, calls,
      changes, dialogs, faults>>

\* ------------------------------------------------------------ TascamControlPanel
Combos ==
    {"latency_combo", "line_out_combo", "digital_out_combo",
     "capture_12_combo", "capture_34_combo"}

\* the number of items create_control_widget gives each dropdown
ItemCount(c) == IF c = "latency_combo" THEN 3 ELSE 2

\* the control each currentIndexChanged handler writes
ConnectedControlCrossed(c) ==
    CASE c = "latency_combo" -> "Latency Profile"
      [] c = "line_out_combo" -> "Digital Out Source"
      [] c = "digital_out_combo" -> "Line Out Source"
      [] c = "capture_12_combo" -> "Capture 1-2 Source"
      [] c = "capture_34_combo" -> "Capture 3-4 Source"

ConnectedControl(c) ==
    CASE c = "latency_combo" -> "Latency Profile"
      [] c = "line_out_combo" -> "Line Out Source"
      [] c = "digital_out_combo" -> "Digital Out Source"
      [] c = "capture_12_combo" -> "Capture 1-2 Source"
      [] c = "capture_34_combo" -> "Capture 3-4 Source"

\* the update_combo calls of load_dynamic_settings, in order: <<dropdown, control>>
LoadOrderCrossed ==
    << <<"latency_combo", "Latency Profile">>,
       <<"line_out_combo", "Line Out Source">>,
       <<"digital_out_combo", "Digital Out Source">>,
       <<"capture_12_combo", "Capture 3-4 Source">>,
       <<"capture_34_combo", "Capture 1-2 Source">> >>

LoadOrder ==
    << <<"latency_combo", "Latency Profile">>,
       <<"line_out_combo", "Line Out Source">>,
       <<"digital_out_combo", "Digital Out Source">>,
       <<"capture_12_combo", "Capture 1-2 Source">>,
       <<"capture_34_combo", "Capture 3-4 Source">> >>

\* QComboBox.setCurrentIndex: an index outside the items selects nothing (-1)
setCurrentIndex(c, value) == IF value >= 0 /\ value < ItemCount(c) THEN value ELSE -1

\* whether update_combo wraps setCurrentIndex in blockSignals(True/False)
update_combo_unblocked == FALSE

update_combo_blocks == TRUE

\* the label text load_dynamic_settings derives from the sample rate
sample_rate_text(rate_val) ==
    IF rate_val > 0 THEN <<"kHz", rate_val>> ELSE <<"N/A (inactive)", 0>>

\* one entry of the call history
Call(cmd, how, ret) == [cmd |-> cmd, how |-> how, ret |-> ret]

\* set_value(control_name, index): the write, its log entry and what the device
\* holds afterwards; the result of set_control_value is dropped
set_value(control_name, index, how, log, device) ==
    LET cmd == cset_cmd(card_id, control_name, index)
        r == set_control_value(card_id, control_name, index, CsetRun(how))
    IN  [exc |-> r.exc,
         calls |-> IF PyNot(card_id) THEN log ELSE Append(log, Call(cmd, how, r.val)),
         dev |-> IF PyNot(card_id) THEN device ELSE CsetEffect(cmd, how, device)]

Fault(bad) == IF bad THEN faults + 1 ELSE faults

CanFault(bad) == bad => faults < MaxFaults

\* ------------------------------------------------------------ initial states
\* the lines `aplay -l` may print
CardLine(n) == <<"card ", n, ":", " ", NAME, " [", "TASCAM US-144MKII", "]">>
OtherCardLine(n) == <<"card ", n, ":", " ", "PCH", " [", "HDA Intel PCH", "]">>
SubdeviceLine == <<"  ", "Subdevice #0: subdevice #0">>
ListHeaderLine == <<"**** List of PLAYBACK Hardware Devices ****">>

AplayAnswers ==
    { Missing, NonZero,
      Ok(<<ListHeaderLine, OtherCardLine("0"), SubdeviceLine>>),
      Ok(<<ListHeaderLine, CardLine("0"), SubdeviceLine>>),
      Ok(<<ListHeaderLine, OtherCardLine("0"), SubdeviceLine, CardLine("1"), SubdeviceLine>>) }

\* the values the driver may hold at startup: each enum control anything from 0
\* up to one past the last item its dropdown offers
ControlIndex(name) ==
    CASE name = "Latency Profile" -> 1
      [] name = "Line Out Source" -> 2
      [] name = "Digital Out Source" -> 3
      [] name = "Capture 1-2 Source" -> 4
      [] name = "Capture 3-4 Source" -> 5

DeviceStates ==
    { [name \in Controls |->
          IF name = "Sample Rate" THEN (IF k % 2 = 0 THEN 48000 ELSE 0)
          ELSE IF name = "Latency Profile" THEN k
          ELSE (k + ControlIndex(name)) % 3] : k \in 0..3 }

NotCalled == [exc |-> "not called", val |-> 0]

NoCall == [fn |-> "none"]

MainInit ==
    /\ pc = "start"
    /\ step = 1
    /\ exit_code = -1
    /\ card_id = None
    /\ panel = FALSE
    /\ combo = [c \in Combos |-> -1]
    /\ info_labels = [k \in {"driver_version", "sample_rate"} |-> <<>>]
    /\ calls = <<>>
    /\ changes = <<>>
    /\ dialogs = 0
    /\ faults = 0

Init ==
    /\ MainInit
    /\ aplay \in AplayAnswers
    /\ dev \in DeviceStates
    /\ fcall = NoCall
    /\ fret = NotCalled

\* ------------------------------------------------------------ main
\* main(), lines 309-312: the locator is run and its answer decides
Locate ==
    /\ pc = "start"
    /\ LET r == get_card_id(NAME, aplay)
       IN  /\ calls' = Append(calls, Call([op |-> "aplay", card |-> <<>>, name |-> NAME,
                                            value |-> <<>>], aplay.status, r.val))
           /\ IF r.exc # NoExc
              THEN pc' = "crashed" /\ UNCHANGED <<card_id, dialogs>>
              ELSE /\ card_id' = r.val
                   /\ IF PyNot(r.val)
                      THEN pc' = "error_dialog" /\ dialogs' = dialogs + 1
                      ELSE pc' = "construct" /\ UNCHANGED dialogs
    /\ UNCHANGED <<panel, step, exit_code, combo, info_labels, aplay, dev, changes,
                   faults, fcall, fret>>

\* the user dismisses the blocking dialog; sys.exit(1)
DismissDialog ==
    /\ pc = "error_dialog"
    /\ pc' = "exited"
    /\ exit_code' = 1
    /\ UNCHANGED <<panel, step, card_id, combo, info_labels, aplay, dev, calls, changes,
                   dialogs, faults, fcall, fret>>

\* TascamControlPanel.__init__ up to init_ui: addItems selects the first item of
\* each dropdown before any handler is connected; the value labels read "N/A"
InitUi ==
    /\ pc = "construct"
    /\ pc' = "load"
    /\ panel' = TRUE
    /\ step' = 1
    /\ combo' = [c \in Combos |-> 0]
    /\ info_labels' = [k \in {"driver_version", "sample_rate"} |-> NA]
    /\ UNCHANGED <<exit_code, card_id, aplay, dev, calls, changes, dialogs, faults, fcall, fret>>

\* load_dynamic_settings, line 279
LoadDriverVersion ==
    /\ pc = "load" /\ step = 1
    /\ \E how \in FileOutcomes :
          LET path == sysfs_path(card_id, "driver_version")
              fs == [p \in {path} |-> FileFor(how)]
              r == read_sysfs_attr(card_id, "driver_version", fs)
          IN  /\ CanFault(how # "present")
              /\ faults' = Fault(how # "present")
              /\ calls' = Append(calls, Call([op |-> "sysfs", card |-> card_id,
                                              name |-> "driver_version", value |-> <<>>],
                                             how, r.val))
              /\ IF r.exc # NoExc
                 THEN pc' = "crashed" /\ UNCHANGED <<step, info_labels>>
                 ELSE /\ info_labels' = [info_labels EXCEPT !["driver_version"] = r.val]
                      /\ step' = 2
                      /\ pc' = pc
    /\ UNCHANGED <<panel, exit_code, card_id, combo, aplay, dev, changes, dialogs,
                   fcall, fret>>

\* load_dynamic_settings, lines 285-286
LoadSampleRate ==
    /\ pc = "load" /\ step = 2
    /\ \E how \in ReadOutcomes :
          LET cmd == cget_cmd(card_id, "Sample Rate")
              r == get_control_value(card_id, "Sample Rate", CgetRun(cmd, how, dev))
          IN  /\ CanFault(how # "good")
              /\ faults' = Fault(how # "good")
              /\ calls' = Append(calls, Call(cmd, how, r.val))
              /\ IF r.exc # NoExc
                 THEN pc' = "crashed" /\ UNCHANGED <<step, info_labels>>
                 ELSE /\ info_labels' = [info_labels EXCEPT !["sample_rate"] =
                                            sample_rate_text(r.val)]
                      /\ step' = 3
                      /\ pc' = pc
    /\ UNCHANGED <<panel, exit_code, card_id, combo, aplay, dev, changes, dialogs,
                   fcall, fret>>

\* update_combo(combo, control_name), one call per step 3..7; after the last one
\* __init__ returns and main shows the panel and enters the event loop
UpdateCombo ==
    /\ pc = "load" /\ step \in 3..7
    /\ \E how \in ReadOutcomes, whow \in WriteOutcomes :
          LET c == LoadOrder[step - 2][1]
              control_name == LoadOrder[step - 2][2]
              cmd == cget_cmd(card_id, control_name)
              r == get_control_value(card_id, control_name, CgetRun(cmd, how, dev))
              log == Append(calls, Call(cmd, how, r.val))
              index == setCurrentIndex(c, r.val)
              emits == ~update_combo_blocks /\ index # combo[c]
              w == set_value(ConnectedControl(c), index, whow, log, dev)
          IN  /\ CanFault(how # "good")
              /\ ~emits => whow = "ok"
              /\ faults' = Fault(how # "good")
              /\ IF r.exc # NoExc
                 THEN /\ pc' = "crashed"
                      /\ calls' = log
                      /\ UNCHANGED <<step, combo, dev>>
                 ELSE /\ combo' = [combo EXCEPT ![c] = index]
                      /\ calls' = IF emits THEN w.calls ELSE log
                      /\ dev' = IF emits THEN w.dev ELSE dev
                      /\ step' = step + 1
                      /\ pc' = IF emits /\ w.exc # NoExc THEN "crashed"
                               ELSE IF step = 7 THEN "running" ELSE "load"
    /\ UNCHANGED <<panel, exit_code, card_id, info_labels, aplay, changes, dialogs,
                   fcall, fret>>

\* the user picks another item of a dropdown: currentIndexChanged(i) runs the
\* connected lambda, which calls set_value
UserChange ==
    /\ pc = "running"
    /\ Len(changes) < MaxChanges
    /\ \E c \in Combos, i \in 0..2, how \in WriteOutcomes :
          LET w == set_value(ConnectedControl(c), i, how, calls, dev)
          IN  /\ i < ItemCount(c)
              /\ i # combo[c]
              /\ CanFault(how # "ok")
              /\ faults' = Fault(how # "ok")
              /\ combo' = [combo EXCEPT ![c] = i]
              /\ changes' = Append(changes, [combo |-> c, index |-> i])
              /\ calls' = w.calls
              /\ dev' = w.dev
              /\ pc' = IF w.exc # NoExc THEN "crashed" ELSE pc
    /\ UNCHANGED <<panel, step, exit_code, card_id, info_labels, aplay, dialogs,
                   fcall, fret>>

\* the user closes the window or presses Exit: app.exec() returns 0
Close ==
    /\ pc = "running"
    /\ pc' = "exited"
    /\ exit_code' = 0
    /\ UNCHANGED <<panel, step, card_id, combo, info_labels, aplay, dev, calls, changes,
                   dialogs, faults, fcall, fret>>

Next ==
    \/ Locate
    \/ DismissDialog
    \/ InitUi
    \/ LoadDriverVersion
    \/ LoadSampleRate
    \/ UpdateCombo
    \/ UserChange
    \/ Close

Spec == Init /\ [][Next]_vars

\* ------------------------------------------------------------ adapter calls
SeqsUpTo(S, n) == UNION {[1..k -> S] : k \in 0..n}

\* lines `aplay -l` may print: card lines with and without the device name, with
\* one and two digits, a localized card line, an indented one, a subdevice line
AplayLines ==
    { <<"card ", "0", ":", " ", NAME>>,
      <<"card ", "2", ":", " ", NAME>>,
      <<"card ", "1", "0", ":", " ", NAME>>,
      <<"card ", "1", ":", " ", "PCH">>,
      <<"Karte ", "2", ":", " ", NAME>>,
      <<"  ", "card ", "3", ":", " ", NAME>>,
      <<"  ", "Subdevice #0: ", NAME>>,
      <<"  ", "Subdevice #0: subdevice #0">> }

AplayResults == {Missing, NonZero} \cup {Ok(out) : out \in SeqsUpTo(AplayLines, MaxLines)}

\* what follows ": values=" in a line of `amixer cget`: one integer, a list, a
\* boolean, bytes, an IEC958 status, nothing
ValueFields ==
    { <<"5">>, <<"0">>, <<"4", "8", "0", "0", "0">>, <<"-", "1">>, <<"1", ",", "0">>,
      <<"on">>, <<"0x55", ",", "0x00">>, <<"[AES0", "=", "0x00", "]">>, <<>> }

MixerLines ==
    { <<"numid", "=", "3", ",", "iface", "=", "CARD">>,
      <<"; type", "=", "ENUMERATED", ",", "access", "=", "rw", ",", "values", "=", "1">> }
    \cup { <<"  ", ": values", "=">> \o f : f \in ValueFields }

MixerResults == {Missing, NonZero} \cup {Ok(out) : out \in SeqsUpTo(MixerLines, MaxLines)}

LocatedCards == {<<"0">>, <<"1">>}

FileContents == SeqsUpTo({"1", " ", "\n"}, MaxText)

Files ==
    {AbsentFile}
    \cup {[exists |-> TRUE, readable |-> FALSE, content |-> <<"1">>]}
    \cup {[exists |-> TRUE, readable |-> TRUE, content |-> t] : t \in FileContents}

OtherFile == [exists |-> TRUE, readable |-> TRUE, content |-> <<"other", "\n">>]

\* a filesystem with `file` at the path of card `at` and OtherFile at the others
Filesystem(at, file) ==
    [p \in {sysfs_path(c, "driver_version") : c \in LocatedCards} |->
        IF p = sysfs_path(at, "driver_version") THEN file ELSE OtherFile]

AdapterCall(fn, card, name, res, fs) ==
    [fn |-> fn, card |-> card, name |-> name, res |-> res, fs |-> fs]

AdapterCalls ==
    {AdapterCall("get_card_id", <<>>, NAME, r, <<>>) : r \in AplayResults}
    \cup {AdapterCall("get_control_value", c, "Latency Profile", r, <<>>) :
             c \in LocatedCards, r \in MixerResults}
    \cup {AdapterCall("read_sysfs_attr", c, "driver_version", Missing, Filesystem(at, f)) :
             c \in LocatedCards, at \in LocatedCards, f \in Files}

InitAdapter ==
    /\ MainInit
    /\ aplay = Missing
    /\ dev = [name \in Controls |-> 0]
    /\ fcall \in AdapterCalls
    /\ fret = NotCalled

Called == fret.exc # "not called"

CallGetCardId ==
    /\ ~Called
    /\ fcall.fn = "get_card_id"
    /\ fret' = get_card_id(fcall.name, fcall.res)
    /\ UNCHANGED <<mainVars, fcall>>

CallGetControlValue ==
    /\ ~Called
    /\ fcall.fn = "get_control_value"
    /\ fret' = get_control_value(fcall.card, fcall.name, fcall.res)
    /\ UNCHANGED <<mainVars, fcall>>

CallReadSysfsAttr ==
    /\ ~Called
    /\ fcall.fn = "read_sysfs_attr"
    /\ fret' = read_sysfs_attr(fcall.card, fcall.name, fcall.fs)
    /\ UNCHANGED <<mainVars, fcall>>

NextAdapter ==
    \/ CallGetCardId
    \/ CallGetControlValue
    \/ CallReadSysfsAttr

SpecAdapter == InitAdapter /\ [][NextAdapter]_vars

\* ------------------------------------------------------------ claims
IsAplay(e) == e.cmd.op = "aplay"
IsCget(e) == e.cmd.op = "cget"
IsCset(e) == e.cmd.op = "cset"
IsSysfs(e) == e.cmd.op = "sysfs"

\* the control the documentation gives each dropdown
DropdownControl(c) ==
    CASE c = "latency_combo" -> "Latency Profile"
      [] c = "line_out_combo" -> "Line Out Source"
      [] c = "digital_out_combo" -> "Digital Out Source"
      [] c = "capture_12_combo" -> "Capture 1-2 Source"
      [] c = "capture_34_combo" -> "Capture 3-4 Source"

Min(S) == CHOOSE x \in S : \A y \in S : x <= y

\* C1: the locator is asked exactly once at startup; the error dialog and exit
\* code 1 happen if and only if it answered NotFound, and then no mixer or sysfs
\* call is issued and no panel is built; every located index, "0" included,
\* goes on to the panel.
C1_LocateOnceAndNotFoundIsFatal ==
    /\ Len(SelectSeq(calls, IsAplay)) = (IF pc = "start" THEN 0 ELSE 1)
    /\ pc # "crashed"
    /\ pc # "start" =>
          LET located == calls[1].ret
          IN  /\ dialogs = (IF located = None THEN 1 ELSE 0)
              /\ located = None =>
                    /\ pc \in {"error_dialog", "exited"}
                    /\ pc = "exited" => exit_code = 1
                    /\ Len(calls) = 1
                    /\ ~panel
              /\ located # None =>
                    /\ card_id = located
                    /\ pc \in {"construct", "load", "running", "exited"}
                    /\ exit_code # 1
                    /\ pc \in {"load", "running", "exited"} => panel

C1_Witness ==
    /\ pc = "exited"
    /\ exit_code = 1
    /\ dialogs = 1
    /\ calls[1].ret = None

\* C2 as stated: the first line that contains the device name decides; the
\* answer is the N of that line's "card N:", and NotFound only when the command
\* is missing, exits non-zero or no line contains the name.
NameLines(out) == {i \in 1..Len(out) : Contains(out[i], NAME)}

\* the digits n such that the line begins "card n:"
BeginsWithCard(line, n) ==
    /\ AllDigits(n)
    /\ Len(line) >= Len(n) + 2
    /\ line[1] = "card "
    /\ SubSeq(line, 2, Len(n) + 1) = n
    /\ line[Len(n) + 2] = ":"

\* the digits n such that "card n:" occurs somewhere in the line
HasCardPattern(line, n) ==
    \E i \in 1..Len(line) : BeginsWithCard(SubSeq(line, i, Len(line)), n)

C2_FirstNameLineDecides ==
    (Called /\ fcall.fn = "get_card_id") =>
        /\ fret.exc = NoExc
        /\ IF fcall.res.status # "ok" \/ NameLines(fcall.res.out) = {}
           THEN fret.val = None
           ELSE /\ fret.val # None
                /\ HasCardPattern(fcall.res.out[Min(NameLines(fcall.res.out))], fret.val)

\* C2 amended: the first line that contains the device name and begins with
\* "card N:" decides, and the answer is its N; the answer is NotFound exactly
\* when the command is missing, exits non-zero or no line is of that kind.
CardNameLines(out) ==
    {i \in NameLines(out) :
        \E k \in 1..(Len(out[i]) - 2) : BeginsWithCard(out[i], SubSeq(out[i], 2, k + 1))}

C2_FirstCardLineWithNameDecides ==
    (Called /\ fcall.fn = "get_card_id") =>
        /\ fret.exc = NoExc
        /\ IF fcall.res.status # "ok" \/ CardNameLines(fcall.res.out) = {}
           THEN fret.val = None
           ELSE /\ fret.val # None
                /\ BeginsWithCard(fcall.res.out[Min(CardNameLines(fcall.res.out))], fret.val)

\* a name line without the pattern comes first and the next line decides
C2_Witness ==
    /\ Called
    /\ fcall.fn = "get_card_id"
    /\ fcall.res.status = "ok"
    /\ Len(fcall.res.out) = 2
    /\ 1 \in NameLines(fcall.res.out)
    /\ CardNameLines(fcall.res.out) = {2}
    /\ fret.val = <<"1", "0">>

\* C3: readInt returns the integer of the "values=" field when the field is one
\* integer, and 0 on a missing binary, a non-zero exit, no "values=" line or a
\* field that is not one integer; no exception reaches the caller.
ValueLines(out) ==
    {i \in 1..Len(out) : \E j \in 1..(Len(out[i]) - 1) :
        out[i][j] = ": values" /\ out[i][j + 1] = "="}

\* the text after ": values=" up to the end of the line
ValueField(line) ==
    LET j == Min({k \in 1..(Len(line) - 1) : line[k] = ": values" /\ line[k + 1] = "="})
    IN  SubSeq(line, j + 2, Len(line))

OneInteger(f) == AllDigits(f) \/ (Len(f) > 1 /\ f[1] = "-" /\ AllDigits(Tail(f)))

IntegerOf(f) == IF f[1] = "-" THEN 0 - DigitsVal(Tail(f)) ELSE DigitsVal(f)

C3_ReadIntValueOrZero ==
    (Called /\ fcall.fn = "get_control_value") =>
        /\ fret.exc = NoExc
        /\ LET out == fcall.res.out
           IN  IF /\ fcall.res.status = "ok"
                  /\ ValueLines(out) # {}
                  /\ OneInteger(ValueField(out[Min(ValueLines(out))]))
               THEN fret.val = IntegerOf(ValueField(out[Min(ValueLines(out))]))
               ELSE fret.val = 0

\* a header line that carries ",values=1" precedes the line ": values=5"
C3_Witness ==
    /\ Called
    /\ fcall.fn = "get_control_value"
    /\ fcall.res.status = "ok"
    /\ Len(fcall.res.out) = 2
    /\ Contains(fcall.res.out[1], "values")
    /\ ValueLines(fcall.res.out) = {2}
    /\ fret.val = 5

\* C4: writeInt runs the mixer in write mode with the panel's card index, the
\* control name and the integer; it returns false on a missing binary or a
\* non-zero exit and true otherwise, and a false result neither raises nor ends
\* the program.
C4_WriteIntReportsFailure ==
    /\ pc # "crashed"
    /\ \A k \in 1..Len(calls) :
          IsCset(calls[k]) =>
              /\ calls[k].cmd.card = card_id
              /\ calls[k].cmd.name \in EnumControls
              /\ OneInteger(calls[k].cmd.value)
              /\ calls[k].ret = (calls[k].how \notin {"missing", "nonzero"})
              /\ ~calls[k].ret => (pc \in {"running", "exited"} /\ exit_code # 1)

C4_Witness ==
    /\ pc = "running"
    /\ calls # <<>>
    /\ IsCset(calls[Len(calls)])
    /\ calls[Len(calls)].how = "nonzero"
    /\ calls[Len(calls)].ret = FALSE

\* C5: the n-th change of a dropdown by the user gives the n-th mixer write, for
\* the control of that dropdown and with the new position as its value; there
\* are as many writes as changes, whether the writes succeed or fail.
C5_OneWritePerChange ==
    LET writes == SelectSeq(calls, IsCset)
    IN  /\ Len(writes) = Len(changes)
        /\ \A k \in 1..Len(writes) :
              /\ writes[k].cmd.name = DropdownControl(changes[k].combo)
              /\ OneInteger(writes[k].cmd.value)
              /\ IntegerOf(writes[k].cmd.value) = changes[k].index

\* two changes of different dropdowns, the first of which failed to write
C5_Witness ==
    /\ Len(changes) = 2
    /\ changes[1].combo = "line_out_combo"
    /\ changes[2].combo = "digital_out_combo"
    /\ SelectSeq(calls, IsCset)[1].how = "nonzero"

\* C6: once the device is located nothing is fatal: a missing binary, a non-zero
\* exit, malformed output or an unreadable sysfs file gives the sentinel (0,
\* "N/A", false), no dialog and no second attempt, and the panel goes on.
StartupCallsDone ==
    IF pc = "load" THEN step - 1 ELSE IF pc \in {"running", "exited"} /\ panel THEN 7 ELSE 0

C6_NoFailureFatalOnceLocated ==
    (pc # "start" /\ calls[1].ret # None) =>
        /\ pc \in {"construct", "load", "running", "exited"}
        /\ dialogs = 0
        /\ exit_code # 1
        /\ pc = "exited" => exit_code = 0
        /\ Len(calls) = 1 + StartupCallsDone + Len(changes)
        /\ \A k \in 2..Len(calls) :
              /\ (IsCget(calls[k]) /\ calls[k].how # "good") => calls[k].ret = 0
              /\ (IsSysfs(calls[k]) /\ calls[k].how # "present") => calls[k].ret = NA
              /\ (IsCset(calls[k]) /\ calls[k].how # "ok") => calls[k].ret = FALSE

\* a read answered with a list at startup, and the panel took a user change later
C6_Witness ==
    /\ pc = "running"
    /\ Len(changes) >= 1
    /\ \E k \in 2..Len(calls) : IsCget(calls[k]) /\ calls[k].how = "list" /\ calls[k].ret = 0

\* C7: readSysfsAttribute returns "N/A" when the file at the path of the card
\* and attribute does not exist or cannot be read, and the content without its
\* leading and trailing whitespace otherwise; it never raises.
Trimmed(content, t) ==
    /\ (t # <<>> => t[1] \notin Whitespace /\ t[Len(t)] \notin Whitespace)
    /\ \E i \in 1..(Len(content) + 1) :
          /\ i + Len(t) - 1 <= Len(content)
          /\ SubSeq(content, i, i + Len(t) - 1) = t
          /\ \A j \in 1..Len(content) : (j < i \/ j >= i + Len(t)) => content[j] \in Whitespace

C7_SysfsTrimmedOrNA ==
    (Called /\ fcall.fn = "read_sysfs_attr") =>
        /\ fret.exc = NoExc
        /\ LET file == fcall.fs[sysfs_path(fcall.card, fcall.name)]
           IN  IF file.exists /\ file.readable
               THEN Trimmed(file.content, fret.val)
               ELSE fret.val = NA

C7_Witness ==
    /\ Called
    /\ fcall.fn = "read_sysfs_attr"
    /\ fcall.fs[sysfs_path(fcall.card, fcall.name)].content = <<" ", "1", "\n">>
    /\ fcall.fs[sysfs_path(fcall.card, fcall.name)].readable
    /\ fret.val = <<"1">>

\* C9: until the user changes a dropdown no mixer write is issued, whatever the
\* startup reads return.
C9_StartupOnlyReads ==
    changes = <<>> => SelectSeq(calls, IsCset) = <<>>

\* the panel is up, one read moved a dropdown to its last item and another read
\* a value outside the items, nothing written
C9_Witness ==
    /\ pc = "running"
    /\ changes = <<>>
    /\ combo["latency_combo"] = 2
    /\ combo["digital_out_combo"] = -1

\* C10: after startup, a dropdown whose startup read succeeded with a value among
\* its items, and all of whose writes succeeded, shows the value the device
\* holds for its control.
StartupReadInRange(c) ==
    \E k \in 1..Len(calls) :
        /\ IsCget(calls[k])
        /\ calls[k].cmd.name = DropdownControl(c)
        /\ calls[k].how = "good"
        /\ calls[k].ret \in 0..(ItemCount(c) - 1)

AllWritesSucceeded(c) ==
    \A k \in 1..Len(calls) :
        (IsCset(calls[k]) /\ calls[k].cmd.name = DropdownControl(c)) => calls[k].how = "ok"

C10_DropdownShowsDeviceValue ==
    (pc \in {"running", "exited"} /\ panel) =>
        \A c \in Combos :
            (StartupReadInRange(c) /\ AllWritesSucceeded(c)) =>
                combo[c] = dev[DropdownControl(c)]

\* a dropdown read as 1 at startup was changed by the user and written
C10_Witness ==
    /\ pc = "running"
    /\ \E k \in 1..Len(changes) :
          /\ changes[k].combo = "capture_12_combo"
          /\ changes[k].index = 0
    /\ StartupReadInRange("capture_12_combo")
    /\ AllWritesSucceeded("capture_12_combo")
    /\ \E k \in 1..Len(calls) :
          IsCget(calls[k]) /\ calls[k].cmd.name = "Capture 1-2 Source" /\ calls[k].ret = 1
    /\ dev["Capture 1-2 Source"] = 0

====
